------------------------------ MODULE Spec2Model ------------------------------
(***************************************************************************)
(* oledview: a live mirror of the Deluge OLED framebuffer read through a   *)
(* GDB remote-protocol connection (src/src/main.rs).                       *)
(*                                                                         *)
(* The model follows main(): the loop's position is pc, the loop's locals  *)
(* and the values that outlive an iteration (display_buf, last_time, the   *)
(* window's frame) are the variables.  The GDB server, the TCP stream, the *)
(* clock and the window's user are the environment: every outcome the      *)
(* code distinguishes (Err, None, Some(packet)) is a choice of an action.  *)
(* Payloads are sequences of one-character strings, so that hex decoding   *)
(* and request formatting are computed and not assumed.                    *)
(***************************************************************************)
EXTENDS Integers, Sequences, FiniteSets, TLC

(***************************************************************************)
(* Bounds.  The display of the source is 128x48; the model keeps the       *)
(* layout (width a multiple of 8, height/8 pages) at a smaller size.       *)
(***************************************************************************)
WidthOctets == 2
Pages == 2
MaxTicks == 2

Width == 8 * WidthOctets
Height == 8 * Pages

\* const DISPLAY_BUF_SIZE: usize = width * (height >> 3)
DISPLAY_BUF_SIZE == Width * (Height \div 8)

\* the length of display_buf: (width * height) / 8
DisplayBufLen == (Width * Height) \div 8

Min(a, b) == IF a < b THEN a ELSE b

Pow2(k) == 2 ^ k

(***************************************************************************)
(* u8 bit operations                                                       *)
(***************************************************************************)
\* (v >> k) & 0b1
BitOf(v, k) == (v \div Pow2(k)) % 2

\* v | mask, for a mask with the single bit k set
OrMask(v, k) == IF BitOf(v, k) = 1 THEN v ELSE v + Pow2(k)

\* v & !mask, for a mask with the single bit k set
AndNotMask(v, k) == IF BitOf(v, k) = 1 THEN v - Pow2(k) ELSE v

(***************************************************************************)
(* Image decode (main.rs 141-154).  display_buf is indexed from 0, as in   *)
(* the source; a raw block is a sequence (indexed from 1) of bytes.        *)
(* A result is [buf, oob]: oob is TRUE when an index outside display_buf   *)
(* was used, which panics at that write and leaves the earlier writes.     *)
(* The panics of the loop are named by their place: "send_error" and       *)
(* "recv_error" (unwrap of dispatch and of next_packet), "hex_error"       *)
(* (expect of hex::decode), "bytes_index" (bytes[0..3] in read_u32) and    *)
(* "buf_index" (display_buf[buf_idx]).                                     *)
(***************************************************************************)
\* a decoder that pads the last row with zero bytes up to the width
Chunks_Padded(s, n) ==
  [p \in 1..((Len(s) + n - 1) \div n) |->
     [k \in 1..n |-> IF (p - 1) * n + k <= Len(s) THEN s[(p - 1) * n + k] ELSE 0]]

\* decoded.chunks(width): consecutive rows of width bytes, the last one shorter
\* when the length is not a multiple of width
Chunks(s, n) ==
  [p \in 1..((Len(s) + n - 1) \div n) |-> SubSeq(s, (p - 1) * n + 1, Min(p * n, Len(s)))]

\* let buf_idx = ((y * width) + x) / 8
BufIdx(x, y) == ((y * Width) + x) \div 8

\* a decoder that fills the destination byte from its least significant bit
MaskBit_LsbFirst(x) == x % 8

\* let bitmask = 1u8 << (7 - (x % 8)), given as the position of its bit
MaskBit(x) == 7 - (x % 8)

\* let y = (page_y * 8) + bit
PixelRow(page_y, bit) == (page_y * 8) + bit

\* a decoder that only lights pixels and leaves clearing to someone else
WriteBit_SetOnly(buf, idx, x, col, bit) ==
  IF BitOf(col, bit) = 1
    THEN [buf EXCEPT ![idx] = OrMask(@, MaskBit(x))]
    ELSE buf

\* if (col >> bit) & 1 == 1 { buf[idx] |= mask } else { buf[idx] &= !mask }
WriteBit(buf, idx, x, col, bit) ==
  IF BitOf(col, bit) = 1
    THEN [buf EXCEPT ![idx] = OrMask(@, MaskBit(x))]
    ELSE [buf EXCEPT ![idx] = AndNotMask(@, MaskBit(x))]

\* The loops below carry the buffer from one pass to the next.  Each pass
\* binds its result as the one element of a set (s \in {...}) before the next
\* pass uses it, so that it is evaluated once.

\* for bit in 0..8 { ... }
RECURSIVE DecodeBits(_, _, _, _, _)
DecodeBits(st, page_y, x, col, bit) ==
  IF st.oob \/ bit >= 8 THEN st
  ELSE LET idx == BufIdx(x, PixelRow(page_y, bit)) IN
       IF idx \notin DOMAIN st.buf
         THEN [st EXCEPT !.oob = TRUE]
         ELSE CHOOSE r \in {DecodeBits(s, page_y, x, col, bit + 1) :
                  s \in {[st EXCEPT !.buf = WriteBit(st.buf, idx, x, col, bit)]}} : TRUE

\* for (x, col) in row.into_iter().enumerate() { ... }; k is x + 1
RECURSIVE DecodeCols(_, _, _, _)
DecodeCols(st, page_y, row, k) ==
  IF st.oob \/ k > Len(row) THEN st
  ELSE CHOOSE r \in {DecodeCols(s, page_y, row, k + 1) :
           s \in {DecodeBits(st, page_y, k - 1, row[k], 0)}} : TRUE

\* for (page_y, row) in decoded.chunks(width).enumerate() { ... }; p is page_y + 1
RECURSIVE DecodeRows(_, _, _)
DecodeRows(st, rows, p) ==
  IF st.oob \/ p > Len(rows) THEN st
  ELSE CHOOSE r \in {DecodeRows(s, rows, p + 1) :
           s \in {DecodeCols(st, p - 1, rows[p], 1)}} : TRUE

DecodeImage(buf, raw) ==
  CHOOSE r \in {DecodeRows(s, rows, 1) :
      s \in {[buf |-> buf, oob |-> FALSE]}, rows \in {Chunks(raw, Width)}} : TRUE

(***************************************************************************)
(* Hex decoding of a response (hex::decode) and formatting of a request    *)
(* (format!).  A character is a string of length one.                      *)
(***************************************************************************)
LowerHex == <<"0", "1", "2", "3", "4", "5", "6", "7", "8", "9", "a", "b", "c", "d", "e", "f">>
UpperHex == <<"0", "1", "2", "3", "4", "5", "6", "7", "8", "9", "A", "B", "C", "D", "E", "F">>

IsHexChar(c) == \E i \in 1..16 : LowerHex[i] = c \/ UpperHex[i] = c

\* the value of a hex digit, either case
HexVal(c) == (CHOOSE i \in 1..16 : LowerHex[i] = c \/ UpperHex[i] = c) - 1

\* hex::decode: Err on an odd length or on a character that is no hex digit,
\* else one byte per pair of digits, the first digit the high nibble
HexDecode(data) ==
  IF Len(data) % 2 # 0 \/ \E i \in 1..Len(data) : ~IsHexChar(data[i])
    THEN [ok |-> FALSE, bytes |-> <<>>]
    ELSE [ok |-> TRUE,
          bytes |-> [i \in 1..(Len(data) \div 2) |->
                       16 * HexVal(data[2 * i - 1]) + HexVal(data[2 * i])]]

\* what the server sends for a block of bytes: two lower-case digits per byte
HexEncode(bytes) ==
  [i \in 1..(2 * Len(bytes)) |->
     IF i % 2 = 1 THEN LowerHex[(bytes[(i + 1) \div 2] \div 16) + 1]
                  ELSE LowerHex[(bytes[i \div 2] % 16) + 1]]

\* {:x}: lower-case hexadecimal, no leading zeros, no prefix
RECURSIVE ToHex(_)
ToHex(n) ==
  IF n < 16 THEN <<LowerHex[n + 1]>>
  ELSE ToHex(n \div 16) \o <<LowerHex[(n % 16) + 1]>>

\* {}: decimal
RECURSIVE ToDec(_)
ToDec(n) ==
  IF n < 10 THEN <<LowerHex[n + 1]>>
  ELSE ToDec(n \div 10) \o <<LowerHex[(n % 10) + 1]>>

\* u32::from_le_bytes([bytes[0], bytes[1], bytes[2], bytes[3]])
FromLeBytes(bytes) ==
  bytes[1] + 256 * bytes[2] + 65536 * bytes[3] + 16777216 * bytes[4]

\* read_u32: format!("m{:x},{}", addr, 4)
PtrRequest(addr) == <<"m">> \o ToHex(addr) \o <<",">> \o ToDec(4)

\* a framebuffer request whose length is written in decimal
FbRequest_DecimalLength(addr) == <<"m">> \o ToHex(addr) \o <<",">> \o ToDec(DISPLAY_BUF_SIZE)

\* main: format!("m{:x},{:x}", current_image_buf_addr, DISPLAY_BUF_SIZE)
FbRequest(addr) == <<"m">> \o ToHex(addr) \o <<",">> \o ToHex(DISPLAY_BUF_SIZE)

\* a loop that reads the framebuffer at the pointer's own address
FbAddress_PointerItself(ptr_addr, image_addr) == ptr_addr

\* the address the framebuffer request is made for
FbAddress(ptr_addr, image_addr) == image_addr

(***************************************************************************)
(* Render: ImageRaw::<BinaryColor>::new(&display_buf, width) drawn at the  *)
(* origin.  A row is width/8 bytes, the leftmost pixel of a byte its most  *)
(* significant bit.  The frame is the set of lit pixels <<x, y>>.          *)
(***************************************************************************)
Pixels(buf) ==
  {xy \in (0..(Width - 1)) \X (0..(Height - 1)) :
     BitOf(buf[xy[2] * (Width \div 8) + (xy[1] \div 8)], 7 - (xy[1] % 8)) = 1}

(***************************************************************************)
(* Frame clock (main.rs 101-108, 175-183); times are in nanoseconds.       *)
(***************************************************************************)
frequency == 24

\* Duration::from_nanos((1_000_000_000f64 / frequency) as u64)
interval == 1000000000 \div frequency

\* a loop that sleeps the whole interval whatever the body took
SleepFor_Fixed(elapsed) == interval

\* if elapsed < interval { thread::sleep(interval - elapsed) }
SleepFor(elapsed) == IF elapsed < interval THEN interval - elapsed ELSE 0

\* a loop that advances the boundary by the interval, to catch up later
Boundary_CatchUp(last, after_sleep) == last + interval

\* last_time = Instant::now(), taken after the sleep
Boundary(last, after_sleep) == after_sleep

(***************************************************************************)
(* Environment: what the symbol lookup, the GDB server, the clock and the  *)
(* window's user can supply.                                               *)
(***************************************************************************)
\* find_debug_symbol(): the address of OLED::oledCurrentImage (0x20010abc)
SymbolAddrs == {536939196}

\* memory of the pointer: little-endian 0x20004000 and 0x20025af0
PtrBlocks == {<<0, 64, 0, 32>>, <<240, 90, 2, 32>>}

\* payloads answering the pointer read: well formed, truncated (2 and 0 bytes),
\* odd length (an "E01" error reply), not hexadecimal
PtrPayloads ==
  {HexEncode(b) : b \in PtrBlocks}
    \cup {HexEncode(<<240, 90>>), <<>>, <<"E", "0", "1">>, <<"O", "K">>}

\* framebuffers of the target: a dense pattern, and the single pixel (0,0)
PatternFrame == [i \in 1..DISPLAY_BUF_SIZE |-> (i * 37 + 128) % 256]
CornerFrame == [i \in 1..DISPLAY_BUF_SIZE |-> IF i = 1 THEN 1 ELSE 0]
Frames == {PatternFrame, CornerFrame}

\* lengths of truncated framebuffer blocks: not a multiple of the width
ShortLens == {Width + 5}

\* payloads answering the framebuffer read: well formed, truncated (also to
\* nothing), one byte too long, odd length, not hexadecimal
FbPayloads ==
  {HexEncode(f) : f \in Frames}
    \cup {HexEncode(SubSeq(f, 1, n)) : f \in Frames, n \in ShortLens}
    \cup {HexEncode(PatternFrame \o <<255>>), <<>>, <<"E", "0", "1">>, <<"O", "K">>}

\* how long the body of an iteration can take, spent in the blocking receive
\* of the framebuffer: under the interval, exactly the interval, over it
Durations == {1000000, 20000000, interval, interval + 19000000}

\* gdb.next_packet(): Err, Ok(None) or Ok(Some(packet)); a stream that has
\* reported its end delivers no packet afterwards
Responses(closed, payloads) ==
  {[kind |-> "err", data |-> <<>>], [kind |-> "none", data |-> <<>>]}
    \cup (IF closed THEN {} ELSE {[kind |-> "packet", data |-> p] : p \in payloads})

\* the payloads of well-formed answers: blocks of the requested length
GoodPtrPayloads == {HexEncode(b) : b \in PtrBlocks}
GoodFbPayloads == {HexEncode(f) : f \in Frames}

\* what next_packet() can return with the given server: a well-formed server
\* keeps the stream open and sends a block of the requested length
ServerResponses(mode, is_closed, payloads, good) ==
  IF mode = "well_formed"
    THEN {[kind |-> "packet", data |-> p] : p \in good}
    ELSE Responses(is_closed, payloads)

\* whether gdb.dispatch() can return Ok or Err: with a well-formed server the
\* stream takes every request
SendOutcomes(mode) == IF mode = "well_formed" THEN {TRUE} ELSE BOOLEAN

(***************************************************************************)
(* The two reads, as functions of what next_packet() returned.  stop is    *)
(* the panic the read ends in, or "no".                                    *)
(***************************************************************************)
\* a read_u32 that takes an undecodable payload for the pointer 0
ReadU32_SwallowHex(resp) ==
  IF resp.kind = "err" THEN [stop |-> "recv_error", addr |-> 0]
  ELSE IF resp.kind = "none" THEN [stop |-> "no", addr |-> 0]
  ELSE LET h == HexDecode(resp.data) IN
       IF ~h.ok THEN [stop |-> "no", addr |-> 0]
       ELSE IF Len(h.bytes) < 4 THEN [stop |-> "bytes_index", addr |-> 0]
       ELSE [stop |-> "no", addr |-> FromLeBytes(h.bytes)]

\* a pointer read that unwraps the Option: a closed stream is a panic
ReadU32_NoneFatal(resp) ==
  IF resp.kind = "err" THEN [stop |-> "recv_error", addr |-> 0]
  ELSE IF resp.kind = "none" THEN [stop |-> "recv_error", addr |-> 0]
  ELSE LET h == HexDecode(resp.data) IN
       IF ~h.ok THEN [stop |-> "hex_error", addr |-> 0]
       ELSE IF Len(h.bytes) < 4 THEN [stop |-> "bytes_index", addr |-> 0]
       ELSE [stop |-> "no", addr |-> FromLeBytes(h.bytes)]

\* read_u32, main.rs 50-58
ReadU32(resp) ==
  IF resp.kind = "err" THEN [stop |-> "recv_error", addr |-> 0]
  ELSE IF resp.kind = "none" THEN [stop |-> "no", addr |-> 0]
  ELSE LET h == HexDecode(resp.data) IN
       IF ~h.ok THEN [stop |-> "hex_error", addr |-> 0]
       ELSE IF Len(h.bytes) < 4 THEN [stop |-> "bytes_index", addr |-> 0]
       ELSE [stop |-> "no", addr |-> FromLeBytes(h.bytes)]

\* a framebuffer read that unwraps the Option: a closed stream is a panic
ReadFramebuffer_NoneFatal(resp) ==
  IF resp.kind = "err" THEN [stop |-> "recv_error", decoded |-> <<>>]
  ELSE IF resp.kind = "none" THEN [stop |-> "recv_error", decoded |-> <<>>]
  ELSE LET h == HexDecode(resp.data) IN
       IF ~h.ok THEN [stop |-> "hex_error", decoded |-> <<>>]
       ELSE [stop |-> "no", decoded |-> h.bytes]

\* a framebuffer read that keeps no more bytes than it asked for
ReadFramebuffer_Truncating(resp) ==
  IF resp.kind = "err" THEN [stop |-> "recv_error", decoded |-> <<>>]
  ELSE IF resp.kind = "none" THEN [stop |-> "no", decoded |-> <<>>]
  ELSE LET h == HexDecode(resp.data) IN
       IF ~h.ok THEN [stop |-> "hex_error", decoded |-> <<>>]
       ELSE [stop |-> "no",
             decoded |-> SubSeq(h.bytes, 1, Min(Len(h.bytes), DISPLAY_BUF_SIZE))]

\* main.rs 125-132; u8::from_le is the identity on a byte
ReadFramebuffer(resp) ==
  IF resp.kind = "err" THEN [stop |-> "recv_error", decoded |-> <<>>]
  ELSE IF resp.kind = "none" THEN [stop |-> "no", decoded |-> <<>>]
  ELSE LET h == HexDecode(resp.data) IN
       IF ~h.ok THEN [stop |-> "hex_error", decoded |-> <<>>]
       ELSE [stop |-> "no", decoded |-> h.bytes]

(***************************************************************************)
(* State.                                                                  *)
(*   pc                      where main's loop is; "stopped" once it has   *)
(*                           left the loop (break) or panicked             *)
(*   exit                    why it stopped, "no" while running            *)
(*   display_buf_addr        the address find_debug_symbol() returned      *)
(*   display_buf             the DisplayBuffer, indexed from 0             *)
(*   current_image_buf_addr  loop local: <<>> before its let, <<addr>> after*)
(*   request                 loop local: the payload last formatted        *)
(*   resp                    what the last next_packet() returned          *)
(*   decoded                 loop local: the raw block                     *)
(*   frame                   the lit pixels of the window                  *)
(*   frames_drawn            how many times window.update ran              *)
(*   quit_pending            a Quit event waits in the window's queue      *)
(*   closed                  the stream has reported its end               *)
(*   outstanding             requests sent and not yet answered            *)
(*   now, last_time          the clock and the last tick boundary          *)
(*   tick                    iterations completed                          *)
(*   late                    history: some iteration so far took the       *)
(*                           interval or longer                            *)
(*   quit_frames             history: frames_drawn when Quit was queued    *)
(*   server                  the environment: "any" GDB server, or one     *)
(*                           that is "well_formed": it answers every       *)
(*                           request with a block of the requested length  *)
(***************************************************************************)
VARIABLES pc, exit, display_buf_addr, display_buf, current_image_buf_addr,
          request, resp, decoded, frame, frames_drawn, quit_pending, closed,
          outstanding, now, last_time, tick, late, quit_frames, server

vars == <<pc, exit, display_buf_addr, display_buf, current_image_buf_addr,
          request, resp, decoded, frame, frames_drawn, quit_pending, closed,
          outstanding, now, last_time, tick, late, quit_frames, server>>

NoResponse == [kind |-> "unset", data |-> <<>>]

\* a loop that does not wait for the framebuffer response
After_SkipFbReceive(l) ==
  CASE l = "ptr_send" -> "ptr_recv"
    [] l = "ptr_recv" -> "fb_send"
    [] l = "fb_send" -> "decode"
    [] l = "fb_recv" -> "decode"
    [] l = "decode" -> "render"
    [] l = "render" -> "poll"
    [] l = "poll" -> "pace"
    [] l = "pace" -> "ptr_send"

\* the order of the loop body's steps (main.rs 112-184)
After(l) ==
  CASE l = "ptr_send" -> "ptr_recv"
    [] l = "ptr_recv" -> "fb_send"
    [] l = "fb_send" -> "fb_recv"
    [] l = "fb_recv" -> "decode"
    [] l = "decode" -> "render"
    [] l = "render" -> "poll"
    [] l = "poll" -> "pace"
    [] l = "pace" -> "ptr_send"

Running == pc # "stopped"

\* main.rs 86-110: the state when the loop is entered, with the given server
InitWith(mode) ==
  /\ server = mode
  /\ pc = "ptr_send"
  /\ exit = "no"
  /\ display_buf_addr \in SymbolAddrs
  /\ display_buf = [i \in 0..(DisplayBufLen - 1) |-> 0]
  /\ current_image_buf_addr = <<>>
  /\ request = <<>>
  /\ resp = NoResponse
  /\ decoded = <<>>
  /\ frame = {}
  /\ frames_drawn = 0
  /\ quit_pending = FALSE
  /\ closed = FALSE
  /\ outstanding = 0
  /\ now = 0
  /\ last_time = 0
  /\ tick = 0
  /\ late = FALSE
  /\ quit_frames = 0

Init == InitWith("any")

\* an error that is recorded while the loop starts its next iteration
Panic_Swallowed(cause) ==
  /\ pc' = "ptr_send"
  /\ exit' = cause

\* a panic (unwrap, expect, index out of range): the process ends
Panic(cause) ==
  /\ pc' = "stopped"
  /\ exit' = cause

\* read_u32, main.rs 46-48: format the request and dispatch it
SendPtrRequest ==
  /\ pc = "ptr_send"
  /\ request' = PtrRequest(display_buf_addr)
  /\ \E sent \in SendOutcomes(server) :
       IF sent
         THEN /\ pc' = After(pc)
              /\ exit' = exit
              /\ outstanding' = outstanding + 1
         ELSE /\ Panic("send_error")
              /\ outstanding' = outstanding
  /\ UNCHANGED <<display_buf_addr, display_buf, current_image_buf_addr, resp,
                 decoded, frame, frames_drawn, quit_pending, closed, now,
                 last_time, tick, late, quit_frames, server>>

\* what a receive does to the connection's state
Received(r) ==
  /\ resp' = r
  /\ closed' = (closed \/ r.kind = "none")
  /\ outstanding' = IF r.kind = "err" THEN outstanding ELSE outstanding - 1

\* read_u32, main.rs 50-58: block for the response, then decode the pointer
RecvPtrResponse ==
  /\ pc = "ptr_recv"
  /\ \E r \in ServerResponses(server, closed, PtrPayloads, GoodPtrPayloads) :
       LET res == ReadU32(r) IN
       /\ Received(r)
       /\ IF res.stop = "no"
            THEN /\ pc' = After(pc)
                 /\ exit' = exit
                 /\ current_image_buf_addr' = <<res.addr>>
            ELSE /\ Panic(res.stop)
                 /\ current_image_buf_addr' = current_image_buf_addr
  /\ UNCHANGED <<display_buf_addr, display_buf, request, decoded, frame,
                 frames_drawn, quit_pending, now, last_time, tick, late, quit_frames, server>>

\* main.rs 120-122: format the framebuffer request and dispatch it
SendFbRequest ==
  /\ pc = "fb_send"
  /\ request' = FbRequest(FbAddress(display_buf_addr, current_image_buf_addr[1]))
  /\ \E sent \in SendOutcomes(server) :
       IF sent
         THEN /\ pc' = After(pc)
              /\ exit' = exit
              /\ outstanding' = outstanding + 1
         ELSE /\ Panic("send_error")
              /\ outstanding' = outstanding
  /\ UNCHANGED <<display_buf_addr, display_buf, current_image_buf_addr, resp,
                 decoded, frame, frames_drawn, quit_pending, closed, now,
                 last_time, tick, late, quit_frames, server>>

\* main.rs 125-132: block for the response, then hex-decode the block
RecvFbResponse ==
  /\ pc = "fb_recv"
  /\ \E d \in Durations, r \in ServerResponses(server, closed, FbPayloads, GoodFbPayloads) :
       LET res == ReadFramebuffer(r) IN
       /\ now' = now + d
       /\ Received(r)
       /\ decoded' = res.decoded
       /\ IF res.stop = "no"
            THEN /\ pc' = After(pc)
                 /\ exit' = exit
            ELSE Panic(res.stop)
  /\ UNCHANGED <<display_buf_addr, display_buf, current_image_buf_addr, request,
                 frame, frames_drawn, quit_pending, last_time, tick, late, quit_frames, server>>

\* main.rs 141-154: decode the raw block into display_buf, in place
Decode ==
  /\ pc = "decode"
  /\ \E res \in {DecodeImage(display_buf, decoded)} :
       /\ display_buf' = res.buf
       /\ IF res.oob
            THEN Panic("buf_index")
            ELSE /\ pc' = After(pc)
                 /\ exit' = exit
  /\ UNCHANGED <<display_buf_addr, current_image_buf_addr, request, resp, decoded,
                 frame, frames_drawn, quit_pending, closed, outstanding, now,
                 last_time, tick, late, quit_frames, server>>

\* main.rs 159-166: draw display_buf and update the window
Render ==
  /\ pc = "render"
  /\ frame' = Pixels(display_buf)
  /\ frames_drawn' = frames_drawn + 1
  /\ pc' = After(pc)
  /\ UNCHANGED <<exit, display_buf_addr, display_buf, current_image_buf_addr,
                 request, resp, decoded, quit_pending, closed, outstanding, now,
                 last_time, tick, late, quit_frames, server>>

\* a poll that looks for no Quit among the events
QuitSeen_Ignored(pending) == FALSE

\* window.events().any(|e| e == SimulatorEvent::Quit)
QuitSeen(pending) == pending

\* main.rs 169-171: break when the window's events hold a Quit
PollQuit ==
  /\ pc = "poll"
  /\ IF QuitSeen(quit_pending)
       THEN /\ pc' = "stopped"
            /\ exit' = "quit"
       ELSE /\ pc' = After(pc)
            /\ exit' = exit
  /\ UNCHANGED <<display_buf_addr, display_buf, current_image_buf_addr, request,
                 resp, decoded, frame, frames_drawn, quit_pending, closed,
                 outstanding, now, last_time, tick, late, quit_frames, server>>

\* main.rs 175-184: sleep for the rest of the interval, move the tick boundary,
\* and end the iteration (its locals are dropped)
Pace ==
  /\ pc = "pace"
  /\ tick < MaxTicks
  /\ LET elapsed == now - last_time IN
       /\ now' = now + SleepFor(elapsed)
       /\ last_time' = Boundary(last_time, now')
       /\ late' = (late \/ elapsed >= interval)
  /\ tick' = tick + 1
  /\ pc' = After(pc)
  /\ current_image_buf_addr' = <<>>
  /\ request' = <<>>
  /\ resp' = NoResponse
  /\ decoded' = <<>>
  /\ UNCHANGED <<exit, display_buf_addr, display_buf, frame, frames_drawn,
                 quit_pending, closed, outstanding, quit_frames, server>>

\* a window whose close button ends the loop at once
UserQuit_Preemptive ==
  /\ Running
  /\ ~quit_pending
  /\ quit_pending' = TRUE
  /\ quit_frames' = frames_drawn
  /\ pc' = "stopped"
  /\ exit' = "quit"
  /\ UNCHANGED <<display_buf_addr, display_buf, current_image_buf_addr,
                 request, resp, decoded, frame, frames_drawn, closed, outstanding,
                 now, last_time, tick, late, server>>

\* the user closes the window: a Quit event is queued
UserQuit ==
  /\ Running
  /\ ~quit_pending
  /\ quit_pending' = TRUE
  /\ quit_frames' = frames_drawn
  /\ UNCHANGED <<pc, exit, display_buf_addr, display_buf, current_image_buf_addr,
                 request, resp, decoded, frame, frames_drawn, closed, outstanding,
                 now, last_time, tick, late, server>>

Next ==
  \/ SendPtrRequest
  \/ RecvPtrResponse
  \/ SendFbRequest
  \/ RecvFbResponse
  \/ Decode
  \/ Render
  \/ PollQuit
  \/ Pace
  \/ UserQuit

Spec == Init /\ [][Next]_vars

\* The loop against a well-formed server.  The loop runs on by itself and the
\* server answers every request: a step that can be taken is taken (once a
\* Quit is queued, every step is the loop's or the server's answer).
WellFormedSpec == InitWith("well_formed") /\ [][Next]_vars /\ WF_vars(Next)

(***************************************************************************)
(* Properties                                                              *)
(***************************************************************************)
\* the decode step has just run to its end on the raw block in decoded
Decoded == pc \in {"render", "poll", "pace"}

\* bit b of the raw byte of page p, column x
RawBit(raw, p, x, b) == (raw[p * Width + x + 1] \div (2 ^ b)) % 2

\* the destination bit of pixel (x, p*8 + b): byte ((p*8+b)*width + x)/8 of buf,
\* mask 1 << (7 - (x mod 8))
DestBit(buf, p, x, b) ==
  (buf[((p * 8 + b) * Width + x) \div 8] \div (2 ^ (7 - (x % 8)))) % 2

\* C1: after the decode step on a raw block of exactly width*(height/8) bytes,
\* for every page p, column x and bit b the destination bit of pixel
\* (x, p*8+b), MSB-first in its byte, equals bit b (bit 0 the least significant)
\* of raw[p*width + x].
C1_DecodeMapping ==
  (Decoded /\ Len(decoded) = Width * (Height \div 8)) =>
    \A p \in 0..((Height \div 8) - 1), x \in 0..(Width - 1), b \in 0..7 :
      DestBit(display_buf, p, x, b) = RawBit(decoded, p, x, b)

\* C1 witness: the block with only bit 0 of its first byte set has been decoded
\* on top of another image: pixel (0,0) is on (the top bit of byte 0), the
\* pixels (0,1..7) below it and everything else are off.
C1_Witness ==
  /\ pc = "render"
  /\ tick >= 1
  /\ decoded = CornerFrame
  /\ frame # {}
  /\ display_buf = [i \in 0..(DisplayBufLen - 1) |-> IF i = 0 THEN 128 ELSE 0]

\* C2: a decode step on a raw block shorter than width*(height/8) bytes (also
\* an empty one, also one that ends inside a row) does not index outside
\* display_buf, and every destination bit whose raw byte p*width+x lies at or
\* beyond the end of the block keeps the value it had before the step.
C2_PartialInput ==
  [][(pc = "decode" /\ pc' # pc /\ Len(decoded) < Width * (Height \div 8)) =>
       /\ pc' = "render"
       /\ exit' = "no"
       /\ DOMAIN display_buf' = 0..(((Width * Height) \div 8) - 1)
       /\ \A p \in 0..((Height \div 8) - 1), x \in 0..(Width - 1), b \in 0..7 :
            (p * Width + x >= Len(decoded)) =>
              DestBit(display_buf', p, x, b) = DestBit(display_buf, p, x, b)]_vars

\* C2 witness: a block that ends inside a row has been decoded over an earlier
\* image; the last byte of display_buf, which it does not cover, is still lit.
C2_Witness ==
  /\ pc = "render"
  /\ Len(decoded) \in ShortLens
  /\ Len(decoded) % Width # 0
  /\ display_buf[DisplayBufLen - 1] # 0

\* a step of the loop that is a receive (the user's quit leaves pc alone)
RecvStep == pc \in {"ptr_recv", "fb_recv"} /\ pc' # pc

\* the pointer a response to the pointer read stands for
PointerOf(r) ==
  IF r.kind = "none" THEN 0
  ELSE LET b == HexDecode(r.data).bytes IN
       b[1] + 256 * b[2] + 65536 * b[3] + 16777216 * b[4]

\* C3: when a receive reports None (closed stream) the read yields nothing
\* (an empty block; the pointer 0) and the loop goes on to its next step
\* without stopping; the decode step of such an iteration leaves display_buf
\* as it was, and its render step runs and shows the frame shown before.
C3_ClosedStreamLenient ==
  [][/\ (RecvStep /\ resp'.kind = "none") =>
          /\ exit' = "no"
          /\ pc = "ptr_recv" => (pc' = "fb_send" /\ current_image_buf_addr' = <<0>>)
          /\ pc = "fb_recv" => (pc' = "decode" /\ decoded' = <<>>)
     /\ (pc = "decode" /\ pc' # pc /\ resp.kind = "none") =>
          /\ pc' = "render"
          /\ display_buf' = display_buf
     /\ (pc = "render" /\ pc' # pc /\ resp.kind = "none") =>
          /\ pc' = "poll"
          /\ frames_drawn' = frames_drawn + 1
          /\ frame' = frame]_vars

\* C3 witness: the stream closed after an image had been shown; the iteration
\* that saw None has rendered again, and the window still shows that image.
C3_Witness ==
  /\ pc = "poll"
  /\ resp.kind = "none"
  /\ closed
  /\ frames_drawn >= 2
  /\ frame # {}
  /\ frame = Pixels(display_buf)

\* C4: the scheduler is Running (exit = "no") or Stopped; it stops only at the
\* quit poll with a Quit pending, or by a fatal error of a send, a receive or
\* the decode; once stopped nothing happens any more: no request, no decode,
\* no frame.
C4_TwoStates ==
  /\ []((pc = "stopped") <=> (exit # "no"))
  /\ [][(pc # "stopped" /\ pc' = "stopped") =>
          \/ pc = "poll" /\ quit_pending /\ exit' = "quit"
          \/ pc \in {"ptr_send", "fb_send"} /\ exit' = "send_error"
          \/ pc = "ptr_recv" /\ exit' \in {"recv_error", "hex_error", "bytes_index"}
          \/ pc = "fb_recv" /\ exit' \in {"recv_error", "hex_error"}
          \/ pc = "decode" /\ exit' = "buf_index"]_vars
  /\ [][pc = "stopped" =>
          /\ pc' = "stopped"
          /\ exit' = exit
          /\ request' = request
          /\ outstanding' = outstanding
          /\ display_buf' = display_buf
          /\ frames_drawn' = frames_drawn
          /\ frame' = frame]_vars

\* C4 witness: stopped by the quit poll after a second frame.
C4_Witness ==
  /\ pc = "stopped"
  /\ exit = "quit"
  /\ frames_drawn >= 2

\* C5: the steps of an iteration come in the order pointer request, pointer
\* response, framebuffer request, framebuffer response, decode, render, quit
\* poll, pacing; the pointer request asks for 4 bytes at the resolved address;
\* the framebuffer request asks for width*height/8 bytes at the pointer this
\* iteration's pointer response holds; display_buf changes only in the decode
\* step, the frame only in the render step.
C5_TickOrder ==
  [][pc' # pc =>
       /\ \/ pc' = "stopped"
          \/ <<pc, pc'>> \in {<<"ptr_send", "ptr_recv">>, <<"ptr_recv", "fb_send">>,
                              <<"fb_send", "fb_recv">>, <<"fb_recv", "decode">>,
                              <<"decode", "render">>, <<"render", "poll">>,
                              <<"poll", "pace">>, <<"pace", "ptr_send">>}
       /\ pc = "ptr_send" =>
            request' = <<"m">> \o ToHex(display_buf_addr) \o <<",", "4">>
       /\ pc = "fb_send" =>
            request' = <<"m">> \o ToHex(PointerOf(resp)) \o <<",">>
                         \o ToHex((Width * Height) \div 8)
       /\ display_buf' # display_buf => pc = "decode"
       /\ frames_drawn' # frames_drawn =>
            (pc = "render" /\ frames_drawn' = frames_drawn + 1)
       /\ frame' # frame => pc = "render"
       /\ exit' = "quit" => pc = "poll"
       /\ last_time' # last_time => pc = "pace"]_vars

\* C5 witness: in a later iteration the framebuffer request has been sent for
\* the pointer 0x20025af0 that the iteration's pointer response held.
C5_Witness ==
  /\ pc = "fb_recv"
  /\ tick >= 1
  /\ resp.kind = "packet"
  /\ current_image_buf_addr = <<537025264>>
  /\ request = <<"m", "2", "0", "0", "2", "5", "a", "f", "0", ",">>
                 \o ToHex(DISPLAY_BUF_SIZE)

\* C6: at most one request is outstanding: a request is sent only when none
\* is outstanding, a response (or None) is consumed only when exactly one is,
\* and it answers the request sent last: the pointer request for the pointer
\* read, the framebuffer request for the framebuffer read.
C6_OneOutstanding ==
  /\ [](outstanding \in {0, 1})
  /\ [][/\ (pc \in {"ptr_send", "fb_send"} /\ pc' \notin {pc, "stopped"}) =>
             (outstanding = 0 /\ outstanding' = 1)
        /\ (RecvStep /\ resp'.kind \in {"packet", "none"}) =>
             /\ outstanding = 1
             /\ outstanding' = 0
             /\ pc = "ptr_recv" => request = PtrRequest(display_buf_addr)
             /\ pc = "fb_recv" => request = FbRequest(current_image_buf_addr[1])
        /\ outstanding' # outstanding =>
             pc \in {"ptr_send", "ptr_recv", "fb_send", "fb_recv"}]_vars

\* C6 witness: the second iteration's framebuffer response has been consumed.
C6_Witness ==
  /\ pc = "decode"
  /\ tick >= 1
  /\ resp.kind = "packet"
  /\ outstanding = 0

\* C7: a response whose payload is not valid hexadecimal (odd length, or a
\* character that is no hex digit) stops the scheduler in that receive step
\* with the hex decoding error; display_buf is not modified, no frame is
\* rendered, and no further request is sent afterwards.
C7_MalformedHexFatal ==
  /\ [][(RecvStep /\ resp'.kind = "packet" /\ ~HexDecode(resp'.data).ok) =>
          /\ pc' = "stopped"
          /\ exit' = "hex_error"
          /\ display_buf' = display_buf
          /\ frames_drawn' = frames_drawn
          /\ frame' = frame
          /\ request' = request]_vars
  /\ [][exit = "hex_error" =>
          (pc' = "stopped" /\ request' = request /\ outstanding' = outstanding
             /\ display_buf' = display_buf /\ frames_drawn' = frames_drawn)]_vars

\* C7 witness: stopped on an "E01" reply to a pointer read, after one full
\* iteration; only that iteration's frame was drawn.
C7_Witness ==
  /\ pc = "stopped"
  /\ exit = "hex_error"
  /\ resp.data = <<"E", "0", "1">>
  /\ current_image_buf_addr = <<>>
  /\ tick = 1
  /\ frames_drawn = 1

\* C8: a validly hex-encoded response that carries fewer bytes than were
\* requested (4 for the pointer read, width*height/8 for the framebuffer
\* read) does not stop the scheduler: the loop goes on to its next step.
C8_TruncatedBlockLenient ==
  [][(/\ RecvStep
      /\ resp'.kind = "packet"
      /\ HexDecode(resp'.data).ok
      /\ Len(HexDecode(resp'.data).bytes) <
           (IF pc = "ptr_recv" THEN 4 ELSE (Width * Height) \div 8)) =>
       (pc' # "stopped" /\ exit' = "no")]_vars

\* the pacing step
PaceStep == pc = "pace" /\ pc' # pc

\* C9: the interval is 41,666,666 ns; a pacing step after a body shorter than
\* the interval sleeps exactly interval - elapsed and moves the boundary by
\* exactly the interval; as long as no iteration took the interval or longer,
\* iteration n starts n*interval after the first boundary.
C9_Pacing ==
  /\ [](interval = 41666666)
  /\ [](~late => last_time = tick * 41666666)
  /\ [](pc = "ptr_send" => now = last_time)
  /\ [][(PaceStep /\ now - last_time < 41666666) =>
          /\ now' - now = 41666666 - (now - last_time)
          /\ last_time' - last_time = 41666666
          /\ late' = late]_vars

\* C9 witness: the last iteration of a run without a late iteration starts.
C9_Witness ==
  /\ pc = "ptr_send"
  /\ tick = MaxTicks
  /\ tick >= 2
  /\ ~late
  /\ now = tick * interval

\* C10: a pacing step after a body that took the interval or longer does not
\* sleep; every pacing step sleeps between 0 and the interval, by an amount
\* that depends on this iteration's elapsed time alone, and sets the boundary
\* to the time after the sleep, so two successive boundaries are at least the
\* interval apart, also after an overrun.
C10_NoCatchUp ==
  [][PaceStep =>
       /\ now - last_time >= interval => now' = now
       /\ now' - now \in 0..interval
       /\ now' - now = (IF now - last_time < interval
                          THEN interval - (now - last_time) ELSE 0)
       /\ last_time' = now'
       /\ last_time' - last_time >= interval]_vars

\* C10 witness: an iteration that overran by 19 ms was followed by one that
\* did not: the second boundary is one interval after the late first one.
C10_Witness ==
  /\ pc = "ptr_send"
  /\ tick = 2
  /\ late
  /\ last_time = (interval + 19000000) + interval

\* the last iteration the model follows has reached its pacing step
LastTickDone == pc = "pace" /\ tick = MaxTicks

\* C11: with a server that answers every request with a well-formed block of
\* the requested length, once a Quit is queued the scheduler reaches Stopped
\* by that Quit (within the iterations followed); the first quit poll that
\* finds it stops the loop without sleeping, and from the Quit to the stop at
\* most one more frame is rendered, after one more pointer and framebuffer read.
C11_QuitHonoured ==
  /\ quit_pending ~> ((pc = "stopped" /\ exit = "quit") \/ LastTickDone)
  /\ [][(pc = "poll" /\ pc' # pc /\ quit_pending) =>
          /\ pc' = "stopped"
          /\ exit' = "quit"
          /\ now' = now
          /\ last_time' = last_time
          /\ tick' = tick]_vars
  /\ [](quit_pending => frames_drawn <= quit_frames + 1)
  /\ []((quit_pending /\ frames_drawn = quit_frames + 1) => pc \in {"poll", "stopped"})

\* C11 witness: a Quit queued before a render was honoured at the poll after
\* it; the server had answered with a block of the requested length.
C11_Witness ==
  /\ pc = "stopped"
  /\ exit = "quit"
  /\ tick >= 1
  /\ frames_drawn = quit_frames + 1
  /\ resp.kind = "packet"
  /\ Len(decoded) = DISPLAY_BUF_SIZE
  /\ now = last_time + 1000000

\* the loop waits in next_packet() for the answer to the request in flight
Blocked == pc \in {"ptr_recv", "fb_recv"}

\* C12: the Quit is looked at only in the quit-poll step: the loop stops by
\* "quit" from no other step, and queuing a Quit moves nothing.  While the
\* loop is blocked in a receive with a Quit queued it stays Running, and no
\* step but the receive itself can be taken: if the target neither answers
\* nor closes the stream, nothing happens.
C12_QuitNotPreemptive ==
  /\ [][(exit' = "quit" /\ exit # "quit") => pc = "poll"]_vars
  /\ [][(quit_pending' /\ ~quit_pending) => (pc' = pc /\ exit' = exit)]_vars
  /\ []((Blocked /\ quit_pending) =>
          /\ exit = "no"
          /\ outstanding = 1
          /\ ~ENABLED (SendPtrRequest \/ SendFbRequest \/ Decode \/ Render
                         \/ PollQuit \/ Pace \/ UserQuit))
  /\ [][(Blocked /\ quit_pending /\ pc' # pc) => resp'.kind # "unset"]_vars

\* C12 witness: blocked in the framebuffer receive of a later iteration with
\* a Quit queued, still running.
C12_Witness ==
  /\ pc = "fb_recv"
  /\ quit_pending
  /\ exit = "no"
  /\ tick >= 1
  /\ quit_frames = frames_drawn

\* buffers the DisplayBuffer may hold before a decode step: all dark, all
\* lit, alternating bits
PriorBufs == {[i \in 0..(DisplayBufLen - 1) |-> v] : v \in {0, 255, 170}}

\* the (page, column, bit) triples of a full block whose write lands on bit
\* position m of byte idx of the DisplayBuffer
WritersOf(idx, m) ==
  {t \in (0..((Height \div 8) - 1)) \X (0..(Width - 1)) \X (0..7) :
     BufIdx(t[2], PixelRow(t[1], t[3])) = idx /\ MaskBit(t[2]) = m}

\* every bit of the DisplayBuffer is the destination of exactly one triple
OneWritePerBit ==
  \A idx \in 0..(DisplayBufLen - 1), m \in 0..7 : Cardinality(WritersOf(idx, m)) = 1

\* C13: a decode step on a raw block of exactly width*height/8 bytes leaves a
\* DisplayBuffer that depends on the block alone: the same buffer results from
\* decoding the block onto any other starting buffer, and decoding the block a
\* second time changes nothing; every destination bit has exactly one write.
C13_DecodePure ==
  [][(pc = "decode" /\ pc' # pc /\ Len(decoded) = (Width * Height) \div 8) =>
          /\ pc' = "render"
          /\ \A b \in PriorBufs :
               DecodeImage(b, decoded) = [buf |-> display_buf', oob |-> FALSE]
          /\ DecodeImage(display_buf', decoded).buf = display_buf'
          /\ OneWritePerBit]_vars

\* C13 witness: a full block has been decoded over a buffer that held another
\* image (the window still shows that one).
C13_Witness ==
  /\ pc = "render"
  /\ Len(decoded) = (Width * Height) \div 8
  /\ frames_drawn >= 1
  /\ frame # {}
  /\ frame # Pixels(display_buf)
  /\ display_buf = DecodeImage([i \in 0..(DisplayBufLen - 1) |-> 0], decoded).buf

\* the number a string of hex digits stands for
RECURSIVE ParseHex(_)
ParseHex(s) ==
  IF Len(s) = 0 THEN 0
  ELSE 16 * ParseHex(SubSeq(s, 1, Len(s) - 1)) + HexVal(s[Len(s)])

HexDigits(s) == Len(s) >= 1 /\ \A i \in 1..Len(s) : IsHexChar(s[i])

\* a memory-read command as the target parses it: 'm', hex address, ',', hex
\* length; [ok, addr, len]
ParseRead(req) ==
  LET commas == {i \in 1..Len(req) : req[i] = ","} IN
  IF Len(req) < 4 \/ req[1] # "m" \/ Cardinality(commas) # 1
    THEN [ok |-> FALSE, addr |-> 0, len |-> 0]
    ELSE LET c == CHOOSE i \in commas : TRUE
             a == SubSeq(req, 2, c - 1)
             l == SubSeq(req, c + 1, Len(req)) IN
         IF HexDigits(a) /\ HexDigits(l)
           THEN [ok |-> TRUE, addr |-> ParseHex(a), len |-> ParseHex(l)]
           ELSE [ok |-> FALSE, addr |-> 0, len |-> 0]

\* addresses across the range the model's integers hold (up to 0x7fffffff)
AddrSamples == {0, 9, 10, 255, 4096, 305419896, 536939196, 2147483647}

\* C14: every request the loop sends reads, as 'm' + hex address + ',' + hex
\* length, the address it was made for and the length 4 (pointer read) or
\* width*height/8 (framebuffer read); so do the two formats for addresses
\* across the range, and for the 128x48 display the length is written "300".
C14_RequestFormat ==
  [][/\ (pc = "ptr_send" /\ pc' # pc) =>
          ParseRead(request') = [ok |-> TRUE, addr |-> display_buf_addr, len |-> 4]
     /\ (pc = "fb_send" /\ pc' # pc) =>
          /\ ParseRead(request') = [ok |-> TRUE, addr |-> current_image_buf_addr[1],
                                    len |-> (Width * Height) \div 8]
          /\ \A a \in AddrSamples :
               /\ ParseRead(PtrRequest(a)) = [ok |-> TRUE, addr |-> a, len |-> 4]
               /\ ParseRead(FbRequest(a)) =
                    [ok |-> TRUE, addr |-> a, len |-> (Width * Height) \div 8]
          /\ (128 * 48) \div 8 = 768
          /\ ToHex((128 * 48) \div 8) = <<"3", "0", "0">>]_vars

\* C14 witness: the framebuffer request for the image at 0x20004000 is in
\* flight, "m20004000," followed by the length.
C14_Witness ==
  /\ pc = "fb_recv"
  /\ current_image_buf_addr = <<536887296>>
  /\ Len(request) > 10
  /\ SubSeq(request, 1, 10) = <<"m", "2", "0", "0", "0", "4", "0", "0", "0", ",">>
  /\ ParseRead(request).len = DISPLAY_BUF_SIZE

\* numbers of bytes beyond the requested length: one, a row, more than a row
ExtraLens == {1, Width, Width + 1}

DarkBuf == [i \in 0..(DisplayBufLen - 1) |-> 0]

\* C16: a validly encoded framebuffer response with more bytes than requested
\* reaches the decode step whole; that step then uses an index outside
\* display_buf and the loop stops with the index panic, with no frame
\* rendered for it and with the writes of the first width*(height/8) bytes
\* left in display_buf.  A decode step on a block of at most width*(height/8)
\* bytes uses no index outside display_buf.
C16_OversizedFatal ==
  [][/\ (pc = "fb_recv" /\ pc' # pc /\ resp'.kind = "packet"
           /\ HexDecode(resp'.data).ok) =>
          /\ decoded' = HexDecode(resp'.data).bytes
          /\ pc' = "decode"
     /\ (pc = "decode" /\ pc' # pc) =>
          (exit' = "no" <=> Len(decoded) <= Width * (Height \div 8))
     /\ (pc = "decode" /\ pc' # pc /\ Len(decoded) > Width * (Height \div 8)) =>
          /\ pc' = "stopped"
          /\ exit' = "buf_index"
          /\ frames_drawn' = frames_drawn
          /\ frame' = frame
          /\ display_buf' =
               DecodeImage(display_buf, SubSeq(decoded, 1, Width * (Height \div 8))).buf
          /\ \A n \in ExtraLens :
               DecodeImage(DarkBuf, decoded \o [i \in 1..n |-> 255]).oob]_vars

\* C16 witness: after a frame had been shown, a response one byte too long
\* stopped the loop in the decode step; display_buf holds that response's
\* image, which the window never showed.
C16_Witness ==
  /\ pc = "stopped"
  /\ exit = "buf_index"
  /\ Len(decoded) = DISPLAY_BUF_SIZE + 1
  /\ frames_drawn >= 1
  /\ display_buf = DecodeImage(DarkBuf, PatternFrame).buf
  /\ frame # Pixels(display_buf)

\* C17: when the receive of the pointer read reports None the pointer is 0
\* and the loop goes on to the framebuffer request of the same iteration; the
\* step it takes there formats and dispatches the read of width*height/8
\* bytes at address 0 (the loop leaves that step only for the framebuffer
\* receive, or by the panic of a failed dispatch), and no other step of the
\* loop can be taken in its place.  No decode step happens without the
\* framebuffer request of its iteration, made for that iteration's pointer.
C17_NonePointerReadsZero ==
  /\ [][/\ (pc = "ptr_recv" /\ pc' # pc /\ resp'.kind = "none") =>
             /\ pc' = "fb_send"
             /\ exit' = "no"
             /\ current_image_buf_addr' = <<0>>
        /\ (pc = "fb_send" /\ pc' # pc /\ resp.kind = "none") =>
             /\ request' = <<"m", "0", ",">> \o ToHex((Width * Height) \div 8)
             /\ ParseRead(request') =
                  [ok |-> TRUE, addr |-> 0, len |-> (Width * Height) \div 8]
             /\ \/ pc' = "fb_recv" /\ outstanding' = 1
                \/ pc' = "stopped" /\ exit' = "send_error"]_vars
  /\ [](pc = "fb_send" =>
          /\ ENABLED SendFbRequest
          /\ ~ENABLED (SendPtrRequest \/ RecvPtrResponse \/ RecvFbResponse
                         \/ Decode \/ Render \/ PollQuit \/ Pace))
  /\ [](pc \in {"fb_recv", "decode"} =>
          /\ Len(current_image_buf_addr) = 1
          /\ ParseRead(request) = [ok |-> TRUE, addr |-> current_image_buf_addr[1],
                                   len |-> (Width * Height) \div 8])

\* C17 witness: in an iteration after one that showed an image read at the
\* target's pointer, the pointer read saw the stream closed and the request
\* "m0,<length>" has gone out.
C17_Witness ==
  /\ pc = "fb_recv"
  /\ tick >= 1
  /\ closed
  /\ resp.kind = "none"
  /\ frame # {}
  /\ current_image_buf_addr = <<0>>
  /\ request = <<"m", "0", ",">> \o ToHex(DISPLAY_BUF_SIZE)

===============================================================================
